---- MODULE Spec2Model ----
(***************************************************************************)
(* createQueryHook (src/src/index.ts): a factory that turns a static       *)
(* endpoint configuration into an invoker.  Each invocation resolves the   *)
(* request URL, picks the effective params, derives the query key, merges  *)
(* the option layers, hands key + wrapped request function to useQuery and *)
(* returns useQuery's result with the key attached.                        *)
(*                                                                         *)
(* JavaScript objects are TLA+ records (functions over field names); an    *)
(* absent field is a name outside the DOMAIN.  undefined and null are the  *)
(* two sentinel records below, so that every value compares with every     *)
(* other one.                                                              *)
(***************************************************************************)
EXTENDS Integers, Sequences, FiniteSets, TLC

\* ------------------------------------------------------------------------
\* Bounds
\* ------------------------------------------------------------------------
MaxInvocations == 2
MaxFetches == 1

\* ------------------------------------------------------------------------
\* JavaScript values and object operations
\* ------------------------------------------------------------------------
Undefined == [jsUndefined |-> TRUE]
Null == [jsNull |-> TRUE]
EmptyObject == [k \in {} |-> Undefined]

\* Own enumerable fields; spreading undefined or null contributes nothing.
Fields(o) == IF o \in {Undefined, Null} THEN {} ELSE DOMAIN o

\* { ...a, ...b }: shallow, b's fields win.
ObjSpread(a, b) ==
    [k \in Fields(a) \cup Fields(b) |-> IF k \in Fields(b) THEN b[k] ELSE a[k]]

\* Destructuring: a named field (undefined when absent) and the ...rest.
Prop(o, k) == IF k \in Fields(o) THEN o[k] ELSE Undefined
Rest(o, ks) == [k \in Fields(o) \ ks |-> o[k]]

\* a ?? b
Nullish(a, b) == IF a \in {Undefined, Null} THEN b ELSE a

\* ------------------------------------------------------------------------
\* Endpoints: the factory configurations passed to createQueryHook
\* ------------------------------------------------------------------------
FactoryConfig(endpoint) ==
    CASE endpoint = "todos" ->
           [url |-> [type |-> "function", name |-> "GetTodos"],
            queryFn |-> "todosRequest"]
      [] endpoint = "todo" ->
           [url |-> [type |-> "function", name |-> "GetOneTodo"],
            defaultParams |-> [verbose |-> TRUE],
            queryFn |-> "todoRequest"]
      [] endpoint = "posts" ->
           [defaultParams |-> [page |-> 1, limit |-> 10],
            enabled |-> FALSE,
            staleTime |-> 300000,
            url |-> [type |-> "function", name |-> "Posts"],
            queryFn |-> "postsRequest"]
      [] endpoint = "literal" ->
           [url |-> [type |-> "string", value |-> "/todos"],
            refetchOnWindowFocus |-> TRUE,
            queryKey |-> <<"GET", "/factory", [evil |-> TRUE]>>,
            queryFn |-> "literalRequest"]

Endpoints == {"todos", "todo", "posts", "literal"}

\* The order in which the endpoint modules are evaluated.
ModuleOrder == <<"todos", "todo", "posts", "literal">>

\* The url functions of the endpoints, applied to an input.
CallUrl(name, input) ==
    CASE name = "GetTodos" -> "/todos"
      [] name = "GetOneTodo" -> "/todos/" \o input.slug
      [] name = "Posts" -> "/posts"

\* Values of the TInput type argument of each endpoint.
TInput(endpoint) ==
    CASE endpoint = "todos" -> {Null}
      [] endpoint = "todo" -> {[slug |-> "x"], [slug |-> "y"]}
      [] endpoint = "posts" -> {Null, [slug |-> "x"]}
      [] endpoint = "literal" -> {[slug |-> "x"]}

\* Values of the TParams type argument of each endpoint.
TParams(endpoint) ==
    CASE endpoint = "todos" -> {[page |-> 2]}
      [] endpoint = "todo" -> {}
      [] endpoint = "posts" -> {[page |-> 2]}
      [] endpoint = "literal" -> {}

\* What a call site passes besides input and params: nothing, or useQuery
\* options with an axiosConfig that carries, at run time, also the fields
\* the InstanceOptions type leaves out, and with the queryKey and queryFn
\* that the Omit of InstanceOptions leaves out.
CallSiteExtras ==
    {EmptyObject,
     [axiosConfig |-> [headers |-> "h2", url |-> "/evil", method |-> "POST",
                       params |-> [evil |-> TRUE], data |-> "body"],
      staleTime |-> 0, enabled |-> TRUE, refetchOnWindowFocus |-> TRUE,
      queryKey |-> <<"GET", "/evil", [evil |-> TRUE]>>,
      queryFn |-> [queryFn |-> "callSiteRequest", input |-> Null,
                   params |-> [evil |-> TRUE], axiosConfig |-> EmptyObject,
                   requestUrl |-> "/evil"]]}

\* The objects a call site can pass to the invoker of each endpoint.
AllCallConfigs ==
    [endpoint \in Endpoints |->
        {ObjSpread(ObjSpread([input |-> i], p), x) :
            i \in TInput(endpoint),
            p \in {EmptyObject} \cup {[params |-> v] : v \in TParams(endpoint)},
            x \in CallSiteExtras}]

CallConfigs(endpoint) == AllCallConfigs[endpoint]

\* ------------------------------------------------------------------------
\* createQueryHook: the closure and the steps of the invoker
\* ------------------------------------------------------------------------

\* ({ url, queryFn, defaultParams, ...factoryQueryOptions }) => invoker
createQueryHook(config) ==
    [url |-> config.url,
     queryFn |-> config.queryFn,
     defaultParams |-> Prop(config, "defaultParams"),
     factoryQueryOptions |-> Rest(config, {"url", "queryFn", "defaultParams"})]

\* A string url used as a prefix of the input's slug.
RequestUrlInterpolated(url, input) ==
    IF url.type = "string"
    THEN IF "slug" \in Fields(input) THEN url.value \o "/" \o input.slug ELSE url.value
    ELSE CallUrl(url.name, input)

\* typeof url === "string" ? url : url(input)
RequestUrl(url, input) ==
    IF url.type = "string" THEN url.value ELSE CallUrl(url.name, input)

\* { ...defaultParams, ...params } in place of params ?? defaultParams
EffectiveParamsMerged(params, defaultParams) == ObjSpread(defaultParams, params)

\* params = params ?? defaultParams
EffectiveParams(params, defaultParams) == Nullish(params, defaultParams)

\* [requestUrl, "GET", params] in place of ["GET", requestUrl, params]
QueryKeyUrlFirst(requestUrl, params) == <<requestUrl, "GET", params>>

\* ["GET", requestUrl] in place of ["GET", requestUrl, params]
QueryKeyWithoutParams(requestUrl, params) == <<"GET", requestUrl>>

\* const queryKey = ["GET", requestUrl, params]
QueryKey(requestUrl, params) == <<"GET", requestUrl, params>>

\* The async arrow function handed to useQuery as queryFn: the bindings it
\* closes over.
WrappedQueryFn(queryFn, input, params, axiosConfig, requestUrl) ==
    [queryFn |-> queryFn, input |-> input, params |-> params,
     axiosConfig |-> axiosConfig, requestUrl |-> requestUrl]

\* queryKey and queryFn written before the two spreads.
UseQueryOptionsKeyFirst(factoryQueryOptions, instanceQueryOptions, queryKey, wrapped) ==
    ObjSpread(
        ObjSpread([refetchOnWindowFocus |-> FALSE, queryKey |-> queryKey,
                   queryFn |-> wrapped],
                  factoryQueryOptions),
        instanceQueryOptions)

\* The factory layer spread after the call-site layer.
UseQueryOptionsFactoryLast(factoryQueryOptions, instanceQueryOptions, queryKey, wrapped) ==
    ObjSpread(
        ObjSpread(
            ObjSpread([refetchOnWindowFocus |-> FALSE], instanceQueryOptions),
            factoryQueryOptions),
        [queryKey |-> queryKey, queryFn |-> wrapped])

\* The argument of useQuery.
UseQueryOptions(factoryQueryOptions, instanceQueryOptions, queryKey, wrapped) ==
    ObjSpread(
        ObjSpread(
            ObjSpread([refetchOnWindowFocus |-> FALSE], factoryQueryOptions),
            instanceQueryOptions),
        [queryKey |-> queryKey, queryFn |-> wrapped])

\* The call-site axiosConfig spread after url, method and params.
QueryFnArgsConfigLast(wrapped, queryFnArgs) ==
    ObjSpread(
        [input |-> wrapped.input,
         params |-> wrapped.params,
         axiosConfig |-> ObjSpread([url |-> wrapped.requestUrl,
                                    method |-> "GET",
                                    params |-> wrapped.params],
                                   wrapped.axiosConfig)],
        queryFnArgs)

\* The argument the wrapper passes to the factory's queryFn.
QueryFnArgs(wrapped, queryFnArgs) ==
    ObjSpread(
        [input |-> wrapped.input,
         params |-> wrapped.params,
         axiosConfig |-> ObjSpread(wrapped.axiosConfig,
                                   [url |-> wrapped.requestUrl,
                                    method |-> "GET",
                                    params |-> wrapped.params])],
        queryFnArgs)

\* The returned key cut to ["GET", requestUrl].
InvokerReturnKeyPrefix(query, queryKey) ==
    ObjSpread(query, [queryKey |-> SubSeq(queryKey, 1, 2)])

\* return { ...query, queryKey }
InvokerReturn(query, queryKey) == ObjSpread(query, [queryKey |-> queryKey])

\* defaultParams = params ?? defaultParams: the captured binding assigned.
ClosureKeepsParams(closure, call) ==
    [closure EXCEPT !.defaultParams = Nullish(Prop(call, "params"), @)]

\* Line 87 assigns the invoker's own parameter binding; the bindings captured
\* from createQueryHook are the same after the invocation as before it.
ClosureAfterInvocation(closure, call) == closure

\* The url function called once when the hook is created.
CallsAtCreationUrlResolved(config) ==
    [invoker |-> 0, url |-> 1, useQuery |-> 0, queryFn |-> 0]

\* The body of createQueryHook is the single return of the invoker: the
\* number of times each function has run when createQueryHook returns.
CallsAtCreation(config) == [invoker |-> 0, url |-> 0, useQuery |-> 0, queryFn |-> 0]

\* queryFn({...}) evaluated by the invoker itself and its promise handed to
\* useQuery, in place of the arrow function around it.
CallsAfterInvocationEager(counters, url) ==
    [counters EXCEPT !.invoker = @ + 1,
                     !.url = IF url.type = "string" THEN @ ELSE @ + 1,
                     !.useQuery = @ + 1,
                     !.queryFn = @ + 1]

\* What one invocation calls itself: url(input) when url is a function
\* (line 85) and useQuery (line 96).  The call of queryFn (line 105) is in
\* the body of the arrow function handed to useQuery, not in the invoker.
CallsAfterInvocation(counters, url) ==
    [counters EXCEPT !.invoker = @ + 1,
                     !.url = IF url.type = "string" THEN @ ELSE @ + 1,
                     !.useQuery = @ + 1]

\* ------------------------------------------------------------------------
\* The delegate (useQuery) and the request function
\* ------------------------------------------------------------------------

\* A cache entry before its first fetch.  request and settled record the
\* latest call of the request function for the entry: its argument and how
\* the request function itself ended.
NewQuery ==
    [data |-> Undefined, error |-> Null, status |-> "pending",
     fetchStatus |-> "idle", isInvalidated |-> FALSE,
     queryFn |-> Undefined, request |-> Undefined, settled |-> Undefined]

QueryOf(c, key) == IF key \in DOMAIN c THEN c[key] ELSE NewQuery

\* The option `enabled`, on unless set to false.
IsEnabled(options) == IF "enabled" \in Fields(options) THEN options.enabled ELSE TRUE

\* The delegate's policy: fetch when enabled, no fetch is under way, and the
\* entry is not current.
ShouldFetch(options, query) ==
    /\ IsEnabled(options)
    /\ query.fetchStatus = "idle"
    /\ (query.status # "success" \/ query.isInvalidated)

\* useQuery(options), cache side: the entry of options.queryKey takes the
\* producer of this call and is scheduled for a fetch if the policy says so.
UseQueryEntry(c, options) ==
    LET query == QueryOf(c, options.queryKey)
    IN  [query EXCEPT !.queryFn = options.queryFn,
                      !.fetchStatus = IF ShouldFetch(options, query)
                                      THEN "scheduled" ELSE @]

UseQueryCache(c, options) ==
    [k \in DOMAIN c \cup {options.queryKey} |->
        IF k = options.queryKey THEN UseQueryEntry(c, options) ELSE c[k]]

\* useQuery(options), result side.
UseQueryResult(query) ==
    [data |-> query.data, error |-> query.error, status |-> query.status,
     isLoading |-> (query.status = "pending" /\ query.fetchStatus # "idle")]

\* The context object the delegate passes to the producer.
QueryFunctionContext(key) == [queryKey |-> key, meta |-> Undefined]

\* What a call of a request function can end in.
RequestOutcomes ==
    {[ok |-> TRUE, value |-> [payload |-> "p"]],
     [ok |-> FALSE, value |-> [statusCode |-> 404, message |-> "Not Found"]]}

\* try { ... } catch { throw new Error("Request failed") } around the call.
WrapperOutcomeCaught(outcome) ==
    IF outcome.ok THEN outcome
    ELSE [ok |-> FALSE, value |-> [message |-> "Request failed"]]

\* return await queryFn({...}): the wrapper settles as the request function.
WrapperOutcome(outcome) == outcome

\* The delegate stores the outcome of a producer run.
SettledQuery(query, outcome) ==
    IF outcome.ok
    THEN [query EXCEPT !.data = outcome.value, !.error = Null,
                       !.status = "success", !.fetchStatus = "idle",
                       !.isInvalidated = FALSE]
    ELSE [query EXCEPT !.error = outcome.value, !.status = "error",
                       !.fetchStatus = "idle"]

\* ------------------------------------------------------------------------
\* State
\* ------------------------------------------------------------------------
VARIABLES
    hooks,        \* endpoint -> the bindings its invoker captured, once created
    calls,        \* per invoker: how often invoker, url, useQuery, queryFn ran
    cache,        \* the delegate's cache: query key -> entry
    last          \* the latest invocation: call, useQuery argument and result, return value

vars == <<hooks, calls, cache, last>>

Invokers == DOMAIN hooks

RECURSIVE Total(_, _)
Total(hs, counter) ==
    IF hs = {} THEN 0
    ELSE LET h == CHOOSE x \in hs : TRUE
         IN  calls[h][counter] + Total(hs \ {h}, counter)

TotalInvocations == Total(DOMAIN calls, "invoker")
TotalFetches == Total(DOMAIN calls, "queryFn")

Init ==
    /\ hooks = <<>>
    /\ calls = <<>>
    /\ cache = <<>>
    /\ last = Undefined

\* export const useXQuery = createQueryHook(config), when the endpoint's
\* module is evaluated
Create(endpoint) ==
    /\ endpoint \notin Invokers
    /\ endpoint = ModuleOrder[Cardinality(Invokers) + 1]
    /\ hooks' = [e \in Invokers \cup {endpoint} |->
                    IF e = endpoint THEN createQueryHook(FactoryConfig(endpoint))
                    ELSE hooks[e]]
    /\ calls' = [e \in Invokers \cup {endpoint} |->
                    IF e = endpoint THEN CallsAtCreation(FactoryConfig(endpoint))
                    ELSE calls[e]]
    /\ UNCHANGED <<cache, last>>

\* The invocation with the input appended to the key:
\* ["GET", requestUrl, params, input].
InvocationKeyWithInput(closure, call, c) ==
    LET input == call.input
        axiosConfig == Prop(call, "axiosConfig")
        instanceQueryOptions == Rest(call, {"input", "params", "axiosConfig"})
        requestUrl == RequestUrl(closure.url, input)
        params == EffectiveParams(Prop(call, "params"), closure.defaultParams)
        queryKey == QueryKey(requestUrl, params) \o <<input>>
        options == UseQueryOptions(closure.factoryQueryOptions, instanceQueryOptions, queryKey,
                       WrappedQueryFn(closure.queryFn, input, params, axiosConfig, requestUrl))
        query == UseQueryResult(UseQueryEntry(c, options))
    IN  [call |-> call, options |-> options, query |-> query,
         ret |-> InvokerReturn(query, queryKey)]

\* One invocation of an invoker with captured bindings `closure`: lines 82-127.
Invocation(closure, call, c) ==
    LET input == call.input
        axiosConfig == Prop(call, "axiosConfig")
        instanceQueryOptions == Rest(call, {"input", "params", "axiosConfig"})
        requestUrl == RequestUrl(closure.url, input)
        params == EffectiveParams(Prop(call, "params"), closure.defaultParams)
        queryKey == QueryKey(requestUrl, params)
        options == UseQueryOptions(closure.factoryQueryOptions, instanceQueryOptions, queryKey,
                       WrappedQueryFn(closure.queryFn, input, params, axiosConfig, requestUrl))
        query == UseQueryResult(UseQueryEntry(c, options))
    IN  [call |-> call, options |-> options, query |-> query,
         ret |-> InvokerReturn(query, queryKey)]

Invoke(h, call) ==
    /\ TotalInvocations < MaxInvocations
    /\ last' = [hook |-> h] @@ Invocation(hooks[h], call, cache)
    /\ cache' = UseQueryCache(cache, last'.options)
    /\ hooks' = [hooks EXCEPT ![h] = ClosureAfterInvocation(@, call)]
    /\ calls' = [calls EXCEPT ![h] = CallsAfterInvocation(@, hooks[h].url)]

\* The delegate runs the producer of a scheduled entry: the wrapper calls the
\* factory's queryFn.
RunQueryFn(key) ==
    /\ cache[key].fetchStatus = "scheduled"
    /\ TotalFetches < MaxFetches
    /\ cache' = [cache EXCEPT ![key].fetchStatus = "fetching",
                              ![key].request = QueryFnArgs(cache[key].queryFn,
                                                          QueryFunctionContext(key))]
    /\ \E h \in Invokers :
          /\ hooks[h].queryFn = cache[key].queryFn.queryFn
          /\ calls' = [calls EXCEPT ![h].queryFn = @ + 1]
    /\ UNCHANGED <<hooks, last>>

\* The request function settles; the wrapper settles with it and the delegate
\* stores what the wrapper produced.
Settle(key, outcome) ==
    /\ cache[key].fetchStatus = "fetching"
    /\ cache' = [cache EXCEPT ![key] = [SettledQuery(@, WrapperOutcome(outcome))
                                           EXCEPT !.settled = outcome]]
    /\ UNCHANGED <<hooks, calls, last>>

\* queryClient.invalidateQueries({ queryKey }) with the key an invoker returned,
\* once the entry has data (the fetch policy refetches an entry without data
\* anyway).
Invalidate ==
    /\ last # Undefined
    /\ last.ret.queryKey \in DOMAIN cache
    /\ cache[last.ret.queryKey].status = "success"
    /\ ~cache[last.ret.queryKey].isInvalidated
    /\ cache' = [cache EXCEPT ![last.ret.queryKey].isInvalidated = TRUE]
    /\ UNCHANGED <<hooks, calls, last>>

Next ==
    \/ \E endpoint \in Endpoints : Create(endpoint)
    \/ \E h \in Invokers : \E call \in CallConfigs(h) : Invoke(h, call)
    \/ \E key \in DOMAIN cache : RunQueryFn(key)
    \/ \E key \in DOMAIN cache : \E outcome \in RequestOutcomes : Settle(key, outcome)
    \/ Invalidate

Spec == Init /\ [][Next]_vars

\* ------------------------------------------------------------------------
\* Properties
\* ------------------------------------------------------------------------

\* What the latest invocation was given and what it derived.
LastConfig == FactoryConfig(last.hook)
LastKey == last.options.queryKey
LastArgs == QueryFnArgs(last.options.queryFn, QueryFunctionContext(LastKey))

\* C1: the effective params of an invocation (third key element, params of
\* the request arguments and of the transport config) are the call-site
\* params when the call site passes them, else the factory's defaultParams,
\* else undefined: one of the two objects as a whole, never a merge.
EffectiveParamsPrecedence ==
    last # Undefined =>
        LET expected == IF "params" \in DOMAIN last.call THEN last.call.params
                        ELSE IF "defaultParams" \in DOMAIN LastConfig
                             THEN LastConfig.defaultParams
                             ELSE Undefined
        IN  /\ LastKey[3] = expected
            /\ LastArgs.params = expected
            /\ LastArgs.axiosConfig.params = expected

\* defaultParams {page: 1, limit: 10}, call-site params {page: 2}.
EffectiveParamsWitness ==
    /\ last # Undefined
    /\ last.hook = "posts"
    /\ LastConfig.defaultParams = [page |-> 1, limit |-> 10]
    /\ "params" \in DOMAIN last.call
    /\ last.call.params = [page |-> 2]
    /\ LastKey[3] = [page |-> 2]
    /\ "limit" \notin DOMAIN LastKey[3]

\* The option fields of useQuery other than queryKey and queryFn.
OptionFields == {"refetchOnWindowFocus", "enabled", "staleTime"}

\* C2: every option field handed to useQuery has the call-site value if the
\* call site sets it, else the factory value if the factory sets it, else the
\* built-in default, which exists for refetchOnWindowFocus only and is false.
OptionMergePrecedence ==
    last # Undefined =>
        /\ DOMAIN last.options \subseteq OptionFields \cup {"queryKey", "queryFn"}
        /\ \A f \in OptionFields :
              IF f \in DOMAIN last.call
              THEN f \in DOMAIN last.options /\ last.options[f] = last.call[f]
              ELSE IF f \in DOMAIN LastConfig
              THEN f \in DOMAIN last.options /\ last.options[f] = LastConfig[f]
              ELSE IF f = "refetchOnWindowFocus"
              THEN f \in DOMAIN last.options /\ last.options[f] = FALSE
              ELSE f \notin DOMAIN last.options

\* Factory staleTime 300000 and enabled false, call site staleTime 0,
\* enabled true and refetchOnWindowFocus true.
OptionMergeWitness ==
    /\ last # Undefined
    /\ last.hook = "posts"
    /\ LastConfig.staleTime = 300000
    /\ ~LastConfig.enabled
    /\ "staleTime" \in DOMAIN last.call
    /\ last.options.staleTime = 0
    /\ last.options.enabled
    /\ last.options.refetchOnWindowFocus

\* C3: the key handed to useQuery is the three-element sequence
\* ["GET", resolved URL, effective params]; the todos hook invoked with
\* input null and params {page: 2} gives ["GET", "/todos", {page: 2}], the
\* todo hook invoked with slug "x" and no params gives
\* ["GET", "/todos/x", {verbose: true}].
QueryKeyShape ==
    last # Undefined =>
        /\ Len(LastKey) = 3
        /\ LastKey[1] = "GET"
        /\ LastKey[2] = LastArgs.axiosConfig.url
        /\ LastKey[3] = LastArgs.params
        /\ (/\ last.hook = "todos"
            /\ last.call.input = Null
            /\ "params" \in DOMAIN last.call
            /\ last.call.params = [page |-> 2])
              => LastKey = <<"GET", "/todos", [page |-> 2]>>
        /\ (/\ last.hook = "todo"
            /\ last.call.input = [slug |-> "x"]
            /\ "params" \notin DOMAIN last.call)
              => LastKey = <<"GET", "/todos/x", [verbose |-> TRUE]>>

QueryKeyWitness ==
    /\ last # Undefined
    /\ last.hook = "todo"
    /\ last.call.input = [slug |-> "x"]
    /\ "params" \notin DOMAIN last.call
    /\ LastKey = <<"GET", "/todos/x", [verbose |-> TRUE]>>

\* C4: the keys of any two invocations, of one invoker or of two, are equal
\* if and only if their resolved URLs are equal and their effective params
\* are equal.  Each invocation is compared, when it happens, with every
\* invocation whose producer a cache entry holds.
QueryKeyEqualIffUrlAndParamsEqual ==
    [][(last' # Undefined /\ last' # last) =>
          \A k \in DOMAIN cache :
              (last'.options.queryKey = k)
                  <=> (/\ last'.options.queryFn.requestUrl = cache[k].queryFn.requestUrl
                       /\ last'.options.queryFn.params = cache[k].queryFn.params)]_vars

\* The todos invoker and the invoker with the literal url "/todos" have each
\* been invoked once, and their keys were equal: one cache entry.
QueryKeyEqualWitness ==
    /\ last # Undefined
    /\ last.hook = "literal"
    /\ "todos" \in Invokers
    /\ calls["todos"].invoker = 1
    /\ calls["literal"].invoker = 1
    /\ DOMAIN cache = {<<"GET", "/todos", Undefined>>}

\* C5: the resolved URL, as second key element and as url of the transport
\* config, is url(input) when the factory's url is a function and the
\* literal string, whatever the input, when it is a string.
ResolvedUrlFromFunctionOrLiteral ==
    last # Undefined =>
        LET url == LastConfig.url
            expected == IF url.type = "string" THEN url.value
                        ELSE CallUrl(url.name, last.call.input)
        IN  /\ LastKey[2] = expected
            /\ LastArgs.axiosConfig.url = expected
            /\ (last.hook = "todo" /\ last.call.input = [slug |-> "y"])
                  => expected = "/todos/y"
            /\ last.hook = "literal" => expected = "/todos"

\* The literal url "/todos" invoked with an input that has a slug.
ResolvedUrlLiteralWitness ==
    /\ last # Undefined
    /\ LastConfig.url.type = "string"
    /\ last.call.input = [slug |-> "x"]
    /\ LastKey[2] = "/todos"
    /\ LastArgs.axiosConfig.url = "/todos"

\* The fields of a transport config that the wrapper sets itself.
ControlledFields == {"url", "method", "params"}

\* C6: when the delegate runs the wrapped producer, the request function is
\* called with the call-site input, the effective params and the call-site
\* axiosConfig overlaid with url = resolved URL, method = "GET", params =
\* effective params: the call-site axiosConfig never changes these three and
\* each other field it sets arrives unchanged.
RequestFunctionArguments ==
    [][/\ last' # Undefined =>
            /\ last'.options.queryFn.input = last'.call.input
            /\ last'.options.queryFn.axiosConfig =
                  (IF "axiosConfig" \in DOMAIN last'.call
                   THEN last'.call.axiosConfig ELSE Undefined)
            /\ last'.options.queryFn.requestUrl = last'.options.queryKey[2]
            /\ last'.options.queryFn.params = last'.options.queryKey[3]
       /\ \A k \in DOMAIN cache :
            (cache[k].fetchStatus = "scheduled" /\ cache'[k].fetchStatus = "fetching") =>
                LET wrapped == cache[k].queryFn
                    given == wrapped.axiosConfig
                    args == cache'[k].request
                IN  /\ args.input = wrapped.input
                    /\ args.params = k[3]
                    /\ args.axiosConfig.url = k[2]
                    /\ args.axiosConfig.method = "GET"
                    /\ args.axiosConfig.params = k[3]
                    /\ DOMAIN args.axiosConfig = Fields(given) \cup ControlledFields
                    /\ \A f \in Fields(given) \ ControlledFields :
                          args.axiosConfig[f] = given[f]]_vars

\* A request function has been called for a call site whose axiosConfig set
\* url, method, params, headers and data.
RequestFunctionArgumentsWitness ==
    \E k \in DOMAIN cache :
        /\ cache[k].request # Undefined
        /\ cache[k].fetchStatus = "fetching"
        /\ cache[k].queryFn.axiosConfig # Undefined
        /\ ControlledFields \subseteq DOMAIN cache[k].queryFn.axiosConfig
        /\ cache[k].queryFn.axiosConfig.url = "/evil"
        /\ cache[k].request.axiosConfig.url = k[2]
        /\ cache[k].request.axiosConfig.method = "GET"
        /\ cache[k].request.axiosConfig.params = k[3]
        /\ cache[k].request.axiosConfig.headers = "h2"
        /\ cache[k].request.axiosConfig.data = "body"

\* C7: the invoker returns every field of useQuery's result unchanged plus
\* queryKey, equal to the key handed to useQuery in that invocation, so an
\* invalidation by the returned key marks the entry this invocation read
\* and no other.
ReturnCarriesResultAndKey ==
    [][/\ last' # Undefined =>
            /\ DOMAIN last'.ret = DOMAIN last'.query \cup {"queryKey"}
            /\ \A f \in DOMAIN last'.query : last'.ret[f] = last'.query[f]
            /\ last'.ret.queryKey = last'.options.queryKey
            /\ last'.ret.queryKey \in DOMAIN cache'
       /\ (last' # Undefined /\ last' # last) =>
            last'.query = UseQueryResult(cache'[last'.options.queryKey])
       /\ \A k \in DOMAIN cache :
            (cache'[k].isInvalidated /\ ~cache[k].isInvalidated) =>
                (last # Undefined /\ k = last.options.queryKey)]_vars

\* Two entries, and the one of the latest invocation has been invalidated
\* by the returned key.
ReturnCarriesResultAndKeyWitness ==
    /\ last # Undefined
    /\ Cardinality(DOMAIN cache) = 2
    /\ \A k \in DOMAIN cache : cache[k].isInvalidated <=> k = last.ret.queryKey

\* C8: when the request function fails, the wrapper fails with the same
\* error value: the delegate's entry holds exactly what the request function
\* threw, the failed run leaves data as it was (undefined after a failed
\* first fetch), the request function is called once per producer run and
\* not again when it fails, and an invocation that reads the entry returns
\* that error and that data.
RequestErrorPassedThrough ==
    [][/\ \A k \in DOMAIN cache :
            (cache[k].fetchStatus = "fetching" /\ cache'[k].fetchStatus = "idle"
                /\ ~cache'[k].settled.ok) =>
                /\ cache'[k].status = "error"
                /\ cache'[k].error = cache'[k].settled.value
                /\ cache'[k].data = cache[k].data
                /\ TotalFetches' = TotalFetches
       /\ \A k \in DOMAIN cache :
            (cache[k].fetchStatus = "scheduled" /\ cache'[k].fetchStatus = "fetching") =>
                TotalFetches' = TotalFetches + 1
       /\ \A k \in DOMAIN cache :
            (/\ last' # Undefined /\ last' # last /\ last'.options.queryKey = k
             /\ cache[k].status = "error") =>
                /\ last'.ret.error = cache[k].settled.value
                /\ last'.ret.data = cache[k].data]_vars

\* The request function threw the 404 transport error on the first fetch,
\* and the next invocation returned it with data undefined.
RequestErrorWitness ==
    /\ last # Undefined
    /\ last.ret.status = "error"
    /\ last.ret.error = [statusCode |-> 404, message |-> "Not Found"]
    /\ last.ret.data = Undefined
    /\ TotalFetches = 1

\* C9: after any sequence of invocations, an invocation yields the key, the
\* merged options and the request-function arguments that the first
\* invocation of a newly created invoker yields for the same call
\* configuration: nothing of earlier calls persists, and the bindings
\* captured from the factory configuration are never modified.
InvocationsKeepNoState ==
    /\ \A h \in Invokers : hooks[h] = createQueryHook(FactoryConfig(h))
    /\ last # Undefined =>
          LET first == Invocation(createQueryHook(LastConfig), last.call, <<>>)
          IN  /\ LastKey = first.options.queryKey
              /\ last.options = first.options
              /\ LastArgs = QueryFnArgs(first.options.queryFn,
                                        QueryFunctionContext(first.options.queryKey))
              /\ last.ret.queryKey = first.ret.queryKey

\* The posts invoker was invoked with params {page: 2} and then without
\* params: the second key carries defaultParams again.
InvocationsKeepNoStateWitness ==
    /\ last # Undefined
    /\ last.hook = "posts"
    /\ calls["posts"].invoker = 2
    /\ "params" \notin DOMAIN last.call
    /\ <<"GET", "/posts", [page |-> 2]>> \in DOMAIN cache
    /\ LastKey = <<"GET", "/posts", [page |-> 1, limit |-> 10]>>

\* C10: creating a hook calls nothing: as long as an invoker has not been
\* invoked, its url function, its request function and useQuery have not
\* been called for it, and no key or producer of it has reached the cache.
CreationHasNoSideEffects ==
    \A h \in Invokers :
        calls[h].invoker = 0 =>
            /\ calls[h].url = 0
            /\ calls[h].useQuery = 0
            /\ calls[h].queryFn = 0
            /\ last # Undefined => last.hook # h
            /\ \A k \in DOMAIN cache : cache[k].queryFn.queryFn # hooks[h].queryFn

\* One hook was created and never invoked while another one was invoked and
\* its request function called.
CreationHasNoSideEffectsWitness ==
    /\ \E h \in Invokers : calls[h].invoker = 0
    /\ TotalInvocations >= 1
    /\ TotalFetches >= 1

\* C11: the invoker never calls the request function itself.  The request
\* function is called only in a step in which the delegate starts the
\* producer of a scheduled entry, and by that producer; an invocation whose
\* merged options have enabled = false, or whose entry is current, schedules
\* nothing; and an invocation returns while requests are under way, without
\* any of them settling in it.
RequestOnlyThroughDelegate ==
    [][/\ \A h \in DOMAIN calls :
            calls'[h].queryFn # calls[h].queryFn =>
                /\ calls'[h].invoker = calls[h].invoker
                /\ calls'[h].queryFn = calls[h].queryFn + 1
                /\ \E k \in DOMAIN cache :
                      /\ cache[k].fetchStatus = "scheduled"
                      /\ cache'[k].fetchStatus = "fetching"
                      /\ cache[k].queryFn.queryFn = hooks[h].queryFn
                      /\ cache[k].queryFn.requestUrl = k[2]
                      /\ cache[k].queryFn.params = k[3]
       /\ \A h \in DOMAIN calls :
            calls'[h].invoker # calls[h].invoker =>
                LET k == last'.options.queryKey
                    before == QueryOf(cache, k)
                    enabled == IF "enabled" \in DOMAIN last'.options
                               THEN last'.options.enabled ELSE TRUE
                IN  /\ TotalFetches' = TotalFetches
                    /\ (~enabled \/ (before.status = "success" /\ ~before.isInvalidated))
                          => cache'[k].fetchStatus = before.fetchStatus
                    /\ \A j \in DOMAIN cache :
                          /\ cache'[j].settled = cache[j].settled
                          /\ cache'[j].request = cache[j].request
                          /\ cache[j].fetchStatus = "fetching"
                                => cache'[j].fetchStatus = "fetching"]_vars

\* The request function was called once and gave data; a second invocation
\* read the current entry, returned the data and scheduled nothing.
RequestOnlyThroughDelegateWitness ==
    /\ last # Undefined
    /\ TotalInvocations = 2
    /\ TotalFetches = 1
    /\ last.ret.status = "success"
    /\ last.ret.data = [payload |-> "p"]
    /\ cache[LastKey].fetchStatus = "idle"
    /\ ~cache[LastKey].isInvalidated

\* C12: the queryKey handed to useQuery is the derived key
\* ["GET", resolved URL, effective params], the one the invoker returns, and
\* the queryFn handed to useQuery is the wrapper around the factory's
\* request function, also when the factory configuration or the call carries
\* a queryKey or a queryFn of its own at run time; the entry the delegate
\* keeps is under the derived key, with the wrapper as its producer.
KeyAndProducerNotReplaced ==
    last # Undefined =>
        LET requestUrl == IF LastConfig.url.type = "string"
                          THEN LastConfig.url.value
                          ELSE CallUrl(LastConfig.url.name, last.call.input)
            params == IF "params" \in DOMAIN last.call
                      THEN last.call.params
                      ELSE Prop(LastConfig, "defaultParams")
            derived == <<"GET", requestUrl, params>>
        IN  /\ last.options.queryKey = derived
            /\ last.options.queryKey = last.ret.queryKey
            /\ last.options.queryFn.queryFn = LastConfig.queryFn
            /\ last.options.queryFn.input = last.call.input
            /\ last.options.queryFn.params = params
            /\ last.options.queryFn.requestUrl = requestUrl
            /\ last.options.queryFn.axiosConfig = Prop(last.call, "axiosConfig")
            /\ "queryKey" \in DOMAIN last.call
                  => /\ last.options.queryKey # last.call.queryKey
                     /\ last.options.queryFn # last.call.queryFn
            /\ "queryKey" \in DOMAIN LastConfig
                  => last.options.queryKey # LastConfig.queryKey
            /\ derived \in DOMAIN cache
            /\ cache[derived].queryFn = last.options.queryFn

\* The factory configuration carries a queryKey and the call carries a
\* queryKey and a queryFn; useQuery received the derived key and the wrapper.
KeyAndProducerNotReplacedWitness ==
    /\ last # Undefined
    /\ "queryKey" \in DOMAIN LastConfig
    /\ "queryKey" \in DOMAIN hooks[last.hook].factoryQueryOptions
    /\ "queryKey" \in DOMAIN last.call
    /\ "queryFn" \in DOMAIN last.call
    /\ last.options.queryKey = <<"GET", "/todos", Undefined>>
    /\ last.options.queryFn.queryFn = "literalRequest"

\* C13: the derived key depends on a call only through the resolved URL and
\* the effective params.  When an invocation resolves the same URL and the
\* same effective params as the invocation before it, whatever their input,
\* axiosConfig and useQuery options, the two keys are equal, the delegate
\* is addressed at the entry it already has and makes no other, and where
\* the input or the axiosConfig of the two differ, so do the arguments their
\* wrappers pass to the request function.
KeyDependsOnlyOnUrlAndParams ==
    [][(TotalInvocations' # TotalInvocations /\ last # Undefined) =>
          LET before == last.options.queryFn
              after == last'.options.queryFn
              key == last.options.queryKey
          IN  (before.requestUrl = after.requestUrl /\ before.params = after.params) =>
                  /\ last'.options.queryKey = key
                  /\ last'.ret.queryKey = last.ret.queryKey
                  /\ key \in DOMAIN cache
                  /\ DOMAIN cache' = DOMAIN cache
                  /\ cache'[key].data = cache[key].data
                  /\ cache'[key].status = cache[key].status
                  /\ cache'[key].request = cache[key].request
                  /\ (before.input # after.input \/ before.axiosConfig # after.axiosConfig)
                        => QueryFnArgs(before, QueryFunctionContext(key))
                              # QueryFnArgs(after, QueryFunctionContext(key))]_vars

\* The posts hook was invoked with input null and an axiosConfig with
\* headers, and its request is under way; it was then invoked with another
\* input, no axiosConfig and other options, and the delegate has the one
\* entry, the request of which carries the first input and headers.
KeyDependsOnlyOnUrlAndParamsWitness ==
    /\ last # Undefined
    /\ TotalInvocations = 2
    /\ last.hook = "posts"
    /\ last.call.input = [slug |-> "x"]
    /\ "axiosConfig" \notin DOMAIN last.call
    /\ ~last.options.enabled
    /\ Cardinality(DOMAIN cache) = 1
    /\ cache[LastKey].fetchStatus = "fetching"
    /\ cache[LastKey].request.input = Null
    /\ cache[LastKey].request.axiosConfig.headers = "h2"
    /\ cache[LastKey].queryFn.input = [slug |-> "x"]

====
